---- MODULE Spec2Model ----
(***************************************************************************)
(* Model of dep (src/src/main.rs): the `init` and `update` commands of     *)
(* main(), the per-dependency link / clone / converge procedure, remote    *)
(* URL derivation and the passphrase prompt.                               *)
(*                                                                         *)
(* Strings that the code inspects (git server, repo shorthand, urls) are   *)
(* sequences of one-character strings; paths are sequences of components.  *)
(* Option<T> is a sequence of length 0 (None) or 1 (Some).                 *)
(***************************************************************************)
EXTENDS Integers, Sequences, FiniteSets, TLC

\* ---------------------------------------------------------------- Option
None == <<>>
Some(v) == <<v>>
IsSome(o) == o # <<>>
IsNone(o) == o = <<>>
Unwrap(o) == o[1]
UnwrapOr(o, d) == IF o # <<>> THEN o[1] ELSE d

\* ---------------------------------------------------------------- strings
\* str::contains(pat)
Contains(s, pat) ==
    \E i \in 1..(Len(s) - Len(pat) + 1) : SubSeq(s, i, i + Len(pat) - 1) = pat

\* index of the leftmost match of pat in s (s contains pat)
FirstMatch(s, pat) ==
    CHOOSE i \in 1..(Len(s) - Len(pat) + 1) :
        /\ SubSeq(s, i, i + Len(pat) - 1) = pat
        /\ \A j \in 1..(i - 1) : SubSeq(s, j, j + Len(pat) - 1) # pat

\* str::split(pat), collected: the pieces between non-overlapping matches
RECURSIVE Split(_, _)
Split(s, pat) ==
    IF ~Contains(s, pat) THEN <<s>>
    ELSE LET i == FirstMatch(s, pat)
         IN  <<SubSeq(s, 1, i - 1)>> \o Split(SubSeq(s, i + Len(pat), Len(s)), pat)

\* Iterator::nth(n): consumes n + 1 items of the iterator `it` and yields the
\* last of them; yields None and exhausts the iterator when fewer remain.
Nth(it, n) ==
    IF Len(it) > n
    THEN [val |-> Some(it[n + 1]), rest |-> SubSeq(it, n + 2, Len(it))]
    ELSE [val |-> None, rest |-> <<>>]

At == <<"@">>
SchemeSep == <<":", "/", "/">>
Colon == <<":">>
GitAt == <<"g", "i", "t", "@">>

\* ---------------------------------------------------------------- url
UrlOk(u) == [st |-> "ok", url |-> u]
UrlErr == [st |-> "err", url |-> <<>>]
UrlPanic == [st |-> "panic", url |-> <<>>]

\* the (Some(server), Some(repo), None) arm of the url match
ShorthandUrl(server, repo) ==
    IF ~Contains(server, At)
    THEN IF Contains(server, SchemeSep)
         THEN LET parts == Split(server, SchemeSep)
                  first == Nth(parts, 0)
                  second == Nth(first.rest, 1)
              IN  IF IsSome(first.val) /\ IsSome(second.val)
                  THEN UrlOk(Unwrap(first.val) \o SchemeSep \o GitAt
                             \o Unwrap(second.val) \o Colon \o repo)
                  ELSE UrlPanic
         ELSE UrlOk(GitAt \o server \o Colon \o repo)
    ELSE UrlOk(server \o Colon \o repo)

\* let url = match (&man.project.git_server, &dep.repo, &dep.git) { .. }
ResolveUrl(server, repo, git) ==
    CASE IsSome(server) /\ IsSome(repo) /\ IsNone(git) ->
             ShorthandUrl(Unwrap(server), Unwrap(repo))
      [] IsNone(server) /\ IsNone(repo) /\ IsSome(git) -> UrlOk(Unwrap(git))
      [] IsSome(server) /\ IsNone(repo) /\ IsSome(git) -> UrlOk(Unwrap(git))
      [] OTHER -> UrlErr

\* ---------------------------------------------------------------- paths
\* A path is [abs, parts]; current_dir() is the absolute path Cwd.
Cwd == <<"cwd">>

\* PathClean::clean on the components of an absolute path
RECURSIVE CleanFrom(_, _)
CleanFrom(acc, parts) ==
    IF parts = <<>> THEN acc
    ELSE LET c == Head(parts)
             r == Tail(parts)
         IN  CASE c = "." -> CleanFrom(acc, r)
               [] c = ".." -> CleanFrom(IF acc = <<>> THEN acc
                                        ELSE SubSeq(acc, 1, Len(acc) - 1), r)
               [] OTHER -> CleanFrom(Append(acc, c), r)

Clean(parts) == CleanFrom(<<>>, parts)

\* fn absolute_path(path): the components of the absolute, cleaned path
absolute_path(p) ==
    IF p.abs THEN Clean(p.parts) ELSE Clean(Cwd \o p.parts)

\* ---------------------------------------------------------------- data
\* struct TomlDependency
Dep(path, repo, git, branch, tag, rev, into, as) ==
    [path |-> path, repo |-> repo, git |-> git, branch |-> branch,
     tag |-> tag, rev |-> rev, into |-> into, name |-> as]

\* values the manifests of the model are built from
PathRel == [abs |-> FALSE, parts |-> <<"work", "..", "p">>]
PathAbs == [abs |-> TRUE, parts |-> <<"q", ".", "r">>]
GitUrl == <<"u">>
RepoShort == <<"t", "/", "l">>
BranchName == "dev"
TagName == "v1"
RevId == "c3"
IntoDir == "other"
AsName == "x"
OrphanName == "c"
DefaultLibDir == "VENDOR"
ProjectLibDir == "libs"

\* directories of the local sources that exist (everything else is missing)
SourcesPresent == {<<"cwd", "p">>}

Keys == {"a", "b"}
KeyOrder == <<"a", "b">>
Names == Keys \cup {AsName, OrphanName}
DirNames == {DefaultLibDir, ProjectLibDir, IntoDir}

Selectors ==
    {<<b, t, r>> : b \in {None, Some(BranchName)}, t \in {None, Some(TagName)},
                   r \in {None, Some(RevId)}}

\* local sources: present, missing, a path given together with a url, into + as
LocalShapes ==
    {Dep(Some(PathRel), None, None, None, None, None, None, None),
     Dep(Some(PathAbs), None, None, None, None, None, None, None),
     Dep(Some(PathRel), None, Some(GitUrl), None, None, None, None, None),
     Dep(Some(PathRel), None, None, None, None, None, Some(IntoDir), Some(AsName))}

\* explicit url with every combination of branch / tag / rev
GitDefault == Dep(None, None, Some(GitUrl), None, None, None, None, None)
GitBranch == Dep(None, None, Some(GitUrl), Some(BranchName), None, None, None, None)
GitShapes ==
    {Dep(None, None, Some(GitUrl), s[1], s[2], s[3], None, None) : s \in Selectors}
    \cup {Dep(None, None, None, None, None, None, None, None),
          Dep(None, None, Some(GitUrl), Some(BranchName), None, None,
              Some(IntoDir), Some(AsName))}

\* repo shorthand, alone and together with a url
ShorthandShapes ==
    {Dep(None, Some(RepoShort), None, None, None, None, None, None),
     Dep(None, Some(RepoShort), None, Some(BranchName), None, None, None, None),
     Dep(None, Some(RepoShort), Some(GitUrl), None, None, None, None, None)}

Servers ==
    {None, Some(<<"h">>), Some(<<"g", "@", "h">>),
     Some(<<"s", ":", "/", "/", "h">>),
     Some(<<"s", ":", "/", "/", "h", ":", "/", "/", "k">>)}

\* struct TomlManifest (project.lib_dir, project.git_server, dependencies) with
\* the BTreeMap holding a and b where given
Manifest(lib, server, a, b) ==
    [lib_dir |-> lib, git_server |-> server,
     dependencies |->
        Some([k \in {x \in Keys : (x = "a" /\ IsSome(a)) \/ (x = "b" /\ IsSome(b))}
                 |-> IF k = "a" THEN Unwrap(a) ELSE Unwrap(b)])]

\* the manifest `init` writes
Skeleton == [lib_dir |-> None, git_server |-> None, dependencies |-> None]

\* The manifests of the model: dependency a of every shape, followed or not by
\* a branch-pinned dependency b; every server with the shorthand shapes.
SecondDeps == {None, Some(GitBranch)}
Manifests ==
    {Manifest(None, s, Some(a), b) :
        s \in Servers, a \in ShorthandShapes, b \in SecondDeps}
    \cup {Manifest(None, None, a, b) :
             a \in {None} \cup {Some(d) : d \in LocalShapes \cup GitShapes},
             b \in SecondDeps}
    \cup {Manifest(Some(ProjectLibDir), Some(<<"h">>), Some(GitDefault), None),
          Skeleton}

\* struct GlobalOptions (general.default_lib_dir, ssh.protected)
GlobalConfigs ==
    [default_lib_dir : {DefaultLibDir},
     ssh : {None, Some([protected |-> FALSE]), Some([protected |-> TRUE])}]

\* ---------------------------------------------------------------- file system
Absent ==
    [kind |-> "absent", target |-> <<>>, head |-> <<>>, tree |-> "",
     dirty |-> FALSE, untracked |-> FALSE]
EmptyDir == [Absent EXCEPT !.kind = "dir"]
Link(t) == [Absent EXCEPT !.kind = "link", !.target = t]

\* Path::exists follows symbolic links
Exists(e) ==
    \/ e.kind \in {"dir", "repo"}
    \/ e.kind = "link" /\ e.target \in SourcesPresent

\* the remote repository every url of the model names
DefaultBranch == "main"
BranchTip(b) == IF b = DefaultBranch THEN "c1" ELSE "c2"
TagTarget(t) == "c3"
HeadsRef(b) == <<"refs/heads/", b>>
TagsRef(t) == <<"refs/tags/", t>>
Detached(oid) == <<"detached", oid>>

\* ---------------------------------------------------------------- operations
\* One fallible call of main(): its name, its argument and its options.
Op(op, arg, opt) == [op |-> op, arg |-> arg, opt |-> opt]

\* CheckoutBuilder::new() is a safe checkout; the branch converge adds
\* remove_untracked(true) (with refresh, recreate_missing, update_index).
CoDefault_Clean == <<"force", "remove_untracked">>
CoDefault == <<"safe">>
CoBranch == <<"safe", "remove_untracked">>

\* calls that reach the remote, and so invoke the credentials callback
NetworkOps == {"clone", "connect_auth", "fetch", "download"}

\* (Some(branch_name), None, None), destination missing
BranchClone_Default(url, b) ==
    <<Op("create_dst", <<>>, <<>>), Op("clone", url, None)>>
BranchClone(url, b) ==
    <<Op("create_dst", <<>>, <<>>), Op("clone", url, Some(b))>>

\* (Some(branch_name), None, None), destination present
BranchConverge(b) ==
    LET again == <<Op("set_head", HeadsRef(b), <<>>),
                   Op("checkout_tree", <<BranchTip(b)>>, CoBranch),
                   Op("reset", <<BranchTip(b)>>, <<"mixed">>),
                   Op("cleanup_state", <<>>, <<>>)>>
    IN  <<Op("open", <<>>, <<>>), Op("find_remote", <<>>, <<>>),
          Op("connect_auth", <<>>, <<>>),
          Op("fetch", HeadsRef(b), <<>>), Op("download", HeadsRef(b), <<>>),
          Op("find_branch", <<b>>, <<>>)>> \o again \o again

\* (None, Some(tag), None)
TagPlan(url, t, exists) ==
    (IF ~exists
     THEN <<Op("create_dst", <<>>, <<>>), Op("clone", url, None)>>
     ELSE <<Op("open", <<>>, <<>>)>>)
    \o <<Op("find_remote", <<>>, <<>>), Op("download", TagsRef(t), <<>>),
         Op("peel_to_tag", TagsRef(t), <<>>),
         Op("checkout_tree", <<TagTarget(t)>>, CoDefault),
         Op("set_head", TagsRef(t), <<>>)>>

\* (None, None, Some(rev))
RevPlan(url, r, exists) ==
    (IF ~exists
     THEN <<Op("create_dst", <<>>, <<>>), Op("clone", url, None)>>
     ELSE <<Op("open", <<>>, <<>>)>>)
    \o <<Op("find_commit", <<r>>, <<>>),
         Op("checkout_tree", <<r>>, CoDefault),
         Op("set_head_detached", <<r>>, <<>>)>>

\* the `_` arm: no selector, or more than one
DefaultPlan_Skip(url, exists) ==
    IF ~exists
    THEN <<Op("create_dst", <<>>, <<>>), Op("clone", url, None)>>
    ELSE <<>>
DefaultPlan(url, exists) ==
    IF ~exists
    THEN <<Op("create_dst", <<>>, <<>>), Op("clone", url, None)>>
    ELSE <<Op("open", <<>>, <<>>), Op("find_remote", <<>>, <<>>),
           Op("download", <<>>, <<>>), Op("checkout_head", <<>>, CoDefault)>>

\* match (&dep.branch, &dep.tag, &dep.rev)
BackendPlan_Precedence(dep, url, exists) ==
    CASE IsSome(dep.branch) ->
             IF ~exists THEN BranchClone(url, Unwrap(dep.branch))
             ELSE BranchConverge(Unwrap(dep.branch))
      [] IsNone(dep.branch) /\ IsSome(dep.tag) ->
             TagPlan(url, Unwrap(dep.tag), exists)
      [] IsNone(dep.branch) /\ IsNone(dep.tag) /\ IsSome(dep.rev) ->
             RevPlan(url, Unwrap(dep.rev), exists)
      [] OTHER -> DefaultPlan(url, exists)
BackendPlan(dep, url, exists) ==
    CASE IsSome(dep.branch) /\ IsNone(dep.tag) /\ IsNone(dep.rev) ->
             IF ~exists THEN BranchClone(url, Unwrap(dep.branch))
             ELSE BranchConverge(Unwrap(dep.branch))
      [] IsNone(dep.branch) /\ IsSome(dep.tag) /\ IsNone(dep.rev) ->
             TagPlan(url, Unwrap(dep.tag), exists)
      [] IsNone(dep.branch) /\ IsNone(dep.tag) /\ IsSome(dep.rev) ->
             RevPlan(url, Unwrap(dep.rev), exists)
      [] OTHER -> DefaultPlan(url, exists)

\* libdir of the run: project.lib_dir, else general.default_lib_dir
LibDir(man, opts) == UnwrapOr(man.lib_dir, opts.default_lib_dir)

\* let libdir = dep.into.unwrap_or(libdir); let name = dep.name.unwrap_or(name);
\* let dst = libdir.join(name)
Dst(man, opts, key, dep) ==
    <<UnwrapOr(dep.into, LibDir(man, opts)), UnwrapOr(dep.name, key)>>

\* The body of `for (name, dep) in deps` as the calls it makes, given the
\* file system it starts from; `end` is how url resolution ends it early.
\* "exists" is the dst.exists() query, which has no error to return.
Plan(man, opts, key, dep, dirs, ent) ==
    LET dst == Dst(man, opts, key, dep)
        pre == IF dst[1] \notin dirs
               THEN <<Op("create_lib_dir", <<>>, <<>>)>> ELSE <<>>
        exists == Exists(ent[dst])
        query == <<Op("exists", <<IF exists THEN "yes" ELSE "no">>, <<>>)>>
        url == ResolveUrl(man.git_server, dep.repo, dep.git)
    IN  IF IsSome(dep.path)
        THEN [ops |-> pre \o query
                        \o (IF ~exists
                            THEN <<Op("make_symlink",
                                      absolute_path(Unwrap(dep.path)), <<>>)>>
                            ELSE <<>>),
              end |-> "ok"]
        ELSE IF url.st # "ok" THEN [ops |-> pre, end |-> url.st]
        ELSE [ops |-> pre \o query \o BackendPlan(dep, url.url, exists),
              end |-> "ok"]

Has(opt, flag) == \E i \in DOMAIN opt : opt[i] = flag

\* The state the calls act on: the directories that exist, the entries in
\* them, and PASSPHRASE.
\* whether the call can succeed, made for the destination `at`
CanDo(st, at, o) ==
    LET e == st.ent[at]
    IN  CASE o.op \in {"make_symlink", "create_dst"} -> e.kind = "absent"
          [] o.op = "clone" -> e.kind = "dir"
          [] o.op \in {"create_lib_dir", "remove_lib_dir", "read_password",
                       "exists"} -> TRUE
          [] OTHER -> e.kind = "repo"

\* the destination entry after the call succeeded
EntryEffect(e, o) ==
    CASE o.op = "make_symlink" -> Link(o.arg)
      [] o.op = "create_dst" -> EmptyDir
      [] o.op = "clone" ->
             LET b == UnwrapOr(o.opt, DefaultBranch)
             IN  [kind |-> "repo", target |-> <<>>, head |-> HeadsRef(b),
                  tree |-> BranchTip(b), dirty |-> FALSE, untracked |-> FALSE]
      [] o.op = "set_head" -> [e EXCEPT !.head = o.arg]
      [] o.op = "set_head_detached" -> [e EXCEPT !.head = Detached(o.arg[1])]
      [] o.op = "checkout_tree" ->
             [e EXCEPT !.tree = o.arg[1],
                       !.dirty = e.dirty /\ ~Has(o.opt, "force"),
                       !.untracked = e.untracked /\ ~Has(o.opt, "remove_untracked")]
      [] o.op = "reset" -> [e EXCEPT !.dirty = e.dirty /\ ~Has(o.opt, "hard")]
      [] OTHER -> e

\* the state after the call succeeded
Effect(st, at, o) ==
    CASE o.op = "create_lib_dir" -> [st EXCEPT !.dirs = st.dirs \cup {at[1]}]
      [] o.op = "remove_lib_dir" ->
             [st EXCEPT !.dirs = st.dirs \ {at[1]},
                        !.ent = [p \in DOMAIN st.ent |->
                                    IF p[1] = at[1] THEN Absent ELSE st.ent[p]]]
      [] o.op = "read_password" -> [st EXCEPT !.pass = Some(o.arg[1])]
      [] OTHER -> [st EXCEPT !.ent[at] = EntryEffect(st.ent[at], o)]

\* Runs ops[i..] for the destination `at`; the f-th call fails (f = 0: none
\* is made to fail), and so does the first call that cannot succeed. n is the
\* number of calls made, res how the last of them ended.
RECURSIVE Exec(_, _, _, _, _)
Exec(ops, i, st, at, f) ==
    IF i > Len(ops) THEN [st |-> st, n |-> Len(ops), res |-> "ok"]
    ELSE IF ~CanDo(st, at, ops[i]) THEN [st |-> st, n |-> i, res |-> "refused"]
    ELSE IF i = f THEN [st |-> st, n |-> i, res |-> "fault"]
    ELSE Exec(ops, i + 1, Effect(st, at, ops[i]), at, f)

\* fn credentials: the passphrase argument of Cred::ssh_key
Credentials(opts, pass) ==
    IF IsSome(opts.ssh) THEN Some(UnwrapOr(pass, "")) ELSE None

\* the record of the calls a step made: r is Exec's result for ops
Calls(key, ops, r, opts) ==
    [i \in 1..r.n |->
        [key |-> key, op |-> ops[i].op, arg |-> ops[i].arg, opt |-> ops[i].opt,
         res |-> IF i < r.n THEN "ok" ELSE r.res,
         cred |-> IF ops[i].op \in NetworkOps
                  THEN Some(Credentials(opts, r.st.pass)) ELSE None]]

\* ---------------------------------------------------------------- state
MaxRuns == 2

VARIABLES
    manifest,     \* ./deps.toml: None, or Some(its content)
    opts,         \* GLOBAL_OPTIONS, as loaded from ~/.deprc
    dirs,         \* the lib directories that exist
    ent,          \* the entry at each destination <<dir, name>>
    passphrase,   \* PASSPHRASE
    pc,           \* "shell" (no process), "deps", "error", "panic"
    cmd,          \* options.command of the running (or last) process
    force,        \* options.force of the running process
    idx,          \* position of the for loop in the key order
    ops,          \* the calls the running (or last) process made, in order
    exitCode,     \* exit status of the last process (-1: none has run)
    runs,         \* processes started
    prev          \* how the last process ended (or the edit made since)

vars == <<manifest, opts, dirs, ent, passphrase, pc, cmd, force, idx, ops, exitCode,
          runs, prev>>

Dsts == DirNames \X Names

\* what is kept of a finished process: its command, its exit status and the
\* file system it left
Finished(c, code, ds, en) == [cmd |-> c, exit |-> code, dirs |-> ds, ent |-> en]

NoEntries == [p \in Dsts |-> Absent]

Init ==
    /\ manifest \in {None} \cup {Some(m) : m \in Manifests}
    /\ opts \in GlobalConfigs
    /\ \/ dirs = {} /\ ent = NoEntries
       \* a lib directory left by an earlier manifest, holding an orphan
       \/ /\ manifest # None
          /\ dirs = {LibDir(Unwrap(manifest), opts)}
          /\ ent = [NoEntries EXCEPT
                       ![<<LibDir(Unwrap(manifest), opts), OrphanName>>] = EmptyDir]
    /\ passphrase = None
    /\ pc = "shell"
    /\ cmd = ""
    /\ force = FALSE
    /\ idx = 0
    /\ ops = <<>>
    /\ exitCode = -1
    /\ runs = 0
    /\ prev = Finished("", -1, dirs, ent)

\* for (name, dep) in deps: the keys of the BTreeMap in order
DepKeys(man) ==
    IF IsNone(man.dependencies) THEN <<>>
    ELSE SelectSeq(KeyOrder, LAMBDA k : k \in DOMAIN Unwrap(man.dependencies))

\* deps.values().any(|d| d.git.is_some()
\*                       || (d.repo.is_some() && git_server.is_some()))
AnyRemote(man) ==
    /\ IsSome(man.dependencies)
    /\ \E k \in DOMAIN Unwrap(man.dependencies) :
          LET d == Unwrap(man.dependencies)[k]
          IN  IsSome(d.git) \/ (IsSome(d.repo) /\ IsSome(man.git_server))

\* whether update reads the passphrase
Prompts(man, o) ==
    AnyRemote(man) /\ IsSome(o.ssh) /\ Unwrap(o.ssh).protected


\* init: exit(1) if ./deps.toml exists, else write the skeleton manifest
RunInit_Overwrite(f) ==
    /\ pc = "shell" /\ runs < MaxRuns
    /\ runs' = runs + 1
    /\ cmd' = "init"
    /\ force' = FALSE /\ idx' = 0 /\ passphrase' = None
    /\ UNCHANGED <<opts, dirs, ent>>
    /\ ops' = <<[key |-> "", op |-> "create_manifest", arg |-> <<>>, opt |-> <<>>,
                 res |-> IF f THEN "fault" ELSE "ok", cred |-> None]>>
    /\ IF f
       THEN UNCHANGED <<manifest, exitCode, prev>> /\ pc' = "error"
       ELSE /\ manifest' = Some(Skeleton)
            /\ pc' = "shell" /\ exitCode' = 0
            /\ prev' = Finished("init", 0, dirs, ent)
RunInit(f) ==
    /\ pc = "shell" /\ runs < MaxRuns
    /\ runs' = runs + 1
    /\ cmd' = "init"
    /\ force' = FALSE /\ idx' = 0 /\ passphrase' = None
    /\ UNCHANGED <<opts, dirs, ent>>
    /\ IF IsSome(manifest)
       THEN /\ UNCHANGED manifest
            /\ ops' = <<>>
            /\ pc' = "shell" /\ exitCode' = 1
            /\ prev' = Finished("init", 1, dirs, ent)
       ELSE LET o == <<Op("create_manifest", <<>>, <<>>)>>
                r == [st |-> [pass |-> None], n |-> 1,
                      res |-> IF f THEN "fault" ELSE "ok"]
            IN  /\ ops' = Calls("", o, r, opts)
                /\ IF f
                   THEN /\ UNCHANGED <<manifest, exitCode, prev>>
                        /\ pc' = "error"
                   ELSE /\ manifest' = Some(Skeleton)
                        /\ pc' = "shell" /\ exitCode' = 0
                        /\ prev' = Finished("init", 0, dirs, ent)

\* update, up to the for loop: open and parse ./deps.toml, create the lib
\* directory (with --force: delete it first), read the passphrase
BeginPlan_IgnoreForce(man, o, ds, fr) ==
    (IF LibDir(man, o) \notin ds THEN <<Op("create_lib_dir", <<>>, <<>>)>>
     ELSE <<Op("remove_lib_dir", <<>>, <<>>), Op("create_lib_dir", <<>>, <<>>)>>)
    \o (IF Prompts(man, o) THEN <<Op("read_password", <<"pw">>, <<>>)>> ELSE <<>>)
BeginPlan(man, o, ds, fr) ==
    (IF LibDir(man, o) \notin ds THEN <<Op("create_lib_dir", <<>>, <<>>)>>
     ELSE IF fr THEN <<Op("remove_lib_dir", <<>>, <<>>),
                       Op("create_lib_dir", <<>>, <<>>)>>
     ELSE <<>>)
    \o (IF Prompts(man, o) THEN <<Op("read_password", <<"pw">>, <<>>)>> ELSE <<>>)

UpdateBegin(fr) ==
    /\ pc = "shell" /\ runs < MaxRuns
    /\ runs' = runs + 1
    /\ cmd' = "update"
    /\ force' = fr
    /\ UNCHANGED <<manifest, opts, exitCode, prev>>
    /\ IF IsNone(manifest)
       THEN /\ ops' = <<[key |-> "", op |-> "open_manifest", arg |-> <<>>,
                         opt |-> <<>>, res |-> "refused", cred |-> None]>>
            /\ pc' = "error" /\ idx' = 0 /\ passphrase' = None
            /\ UNCHANGED <<dirs, ent>>
       ELSE LET man == Unwrap(manifest)
                plan == BeginPlan(man, opts, dirs, fr)
                at == <<LibDir(man, opts), "">>
            IN  \E f \in 0..Len(plan) :
                LET r == Exec(plan, 1, [dirs |-> dirs, ent |-> ent, pass |-> None],
                              at, f)
                IN
                /\ ops' = Calls("", plan, r, opts)
                /\ dirs' = r.st.dirs /\ ent' = r.st.ent /\ passphrase' = r.st.pass
                /\ pc' = IF r.res = "ok" THEN "deps" ELSE "error"
                /\ idx' = IF r.res = "ok" THEN 1 ELSE 0

\* one iteration of `for (name, dep) in deps`
ProcessDep ==
    /\ pc = "deps"
    /\ LET man == Unwrap(manifest)
           keys == DepKeys(man)
       IN  /\ idx <= Len(keys)
           /\ LET key == keys[idx]
                  dep == Unwrap(man.dependencies)[key]
                  plan == Plan(man, opts, key, dep, dirs, ent)
                  at == Dst(man, opts, key, dep)
                  url == [key |-> key, op |-> "resolve_url", arg |-> <<>>,
                          opt |-> <<>>, res |-> plan.end, cred |-> None]
              IN  \E f \in {0} \cup {i \in 1..Len(plan.ops) :
                                         plan.ops[i].op # "exists"} :
                  LET r == Exec(plan.ops, 1,
                                [dirs |-> dirs, ent |-> ent, pass |-> passphrase],
                                at, f)
                  IN
                  /\ dirs' = r.st.dirs /\ ent' = r.st.ent
                  /\ ops' = ops \o Calls(key, plan.ops, r, opts)
                              \o (IF r.res = "ok" /\ plan.end # "ok"
                                  THEN <<url>> ELSE <<>>)
                  /\ pc' = IF r.res # "ok" THEN "error"
                           ELSE IF plan.end = "err" THEN "error"
                           ELSE IF plan.end = "panic" THEN "panic"
                           ELSE "deps"
                  /\ idx' = IF pc' = "deps" THEN idx + 1 ELSE idx
    /\ UNCHANGED <<manifest, opts, passphrase, cmd, force, exitCode, runs, prev>>

\* the for loop is over: Ok(())
UpdateEnd ==
    /\ pc = "deps"
    /\ idx > Len(DepKeys(Unwrap(manifest)))
    /\ pc' = "shell" /\ exitCode' = 0
    /\ prev' = Finished(cmd, 0, dirs, ent)
    /\ UNCHANGED <<manifest, opts, dirs, ent, passphrase, cmd, force, idx, ops,
                   runs>>

\* main returned Err: the process reports it and exits with status 1
ExitErr_Continue ==
    /\ pc = "error"
    /\ IF cmd = "update" /\ IsSome(manifest) /\ idx >= 1
       THEN pc' = "deps" /\ idx' = idx + 1 /\ UNCHANGED <<exitCode, prev>>
       ELSE /\ pc' = "shell" /\ exitCode' = 1 /\ UNCHANGED idx
            /\ prev' = Finished(cmd, 1, dirs, ent)
    /\ UNCHANGED <<manifest, opts, dirs, ent, passphrase, cmd, force, ops, runs>>
ExitErr ==
    /\ pc = "error"
    /\ pc' = "shell" /\ exitCode' = 1
    /\ prev' = Finished(cmd, 1, dirs, ent)
    /\ UNCHANGED <<manifest, opts, dirs, ent, passphrase, cmd, force, idx, ops,
                   runs>>

\* unreachable!() panicked: the process exits with status 101
ExitPanic ==
    /\ pc = "panic"
    /\ pc' = "shell" /\ exitCode' = 101
    /\ prev' = Finished(cmd, 101, dirs, ent)
    /\ UNCHANGED <<manifest, opts, dirs, ent, passphrase, cmd, force, idx, ops,
                   runs>>

\* between two processes the user edits a checkout: modifies tracked files
\* and adds untracked ones
LocalEdit(at) ==
    /\ pc = "shell" /\ runs < MaxRuns
    /\ prev.cmd \notin {"", "edit"}
    /\ ent[at].kind = "repo"
    /\ ent' = [ent EXCEPT ![at].dirty = TRUE, ![at].untracked = TRUE]
    /\ prev' = Finished("edit", 0, dirs, ent')
    /\ UNCHANGED <<manifest, opts, dirs, passphrase, pc, cmd, force, idx, ops,
                   exitCode, runs>>

Next ==
    \/ \E f \in BOOLEAN : RunInit(f)
    \/ \E fr \in BOOLEAN : UpdateBegin(fr)
    \/ ProcessDep
    \/ UpdateEnd
    \/ ExitErr
    \/ ExitPanic
    \/ \E at \in Dsts : LocalEdit(at)

Spec == Init /\ [][Next]_vars

\* ---------------------------------------------------------------- properties
\* vocabulary of the properties below
TheManifest == UnwrapOr(manifest, Skeleton)
TheDeps == UnwrapOr(TheManifest.dependencies, <<>>)
TheKeys == DepKeys(TheManifest)
DstOf(k) == Dst(TheManifest, opts, k, TheDeps[k])
HasCall(k, o) == \E i \in DOMAIN ops : ops[i].key = k /\ ops[i].op = o
Faulted == \E i \in DOMAIN ops : ops[i].res = "fault"
InUpdate == cmd = "update" /\ IsSome(manifest) /\ idx >= 1
\* the for loop has taken up dependency k / has finished it
Attempted(k) ==
    InUpdate /\ \E i \in 1..Len(TheKeys) :
                   TheKeys[i] = k /\ (i < idx \/ (i = idx /\ pc # "deps"))
Processed(k) ==
    InUpdate /\ \E i \in 1..Len(TheKeys) : TheKeys[i] = k /\ i < idx
UpdateOk == InUpdate /\ idx > Len(TheKeys)
IsRemote(d) == IsNone(d.path)

\* C1 (as claimed): an update that follows a successful update of the same
\* manifest, without --force and with no fault of the file system or the
\* network, does not fail, clones nothing whose destination was there, and
\* leaves every destination as the first run left it.
C1_SecondRun ==
    /\ InUpdate /\ ~force /\ pc # "shell" /\ ~Faulted
    /\ prev.cmd = "update" /\ prev.exit = 0
C1_Idempotent ==
    C1_SecondRun =>
        /\ pc \notin {"error", "panic"}
        /\ \A i \in DOMAIN ops :
              ops[i].op = "clone" => prev.ent[DstOf(ops[i].key)].kind = "absent"
        /\ UpdateOk => ent = prev.ent

\* C2 (as claimed): after a successful update no entry of the vendor directory
\* has a name that is not a manifest key.
C2_Pruned ==
    (pc = "shell" /\ InUpdate /\ exitCode = 0) =>
        \A n \in Names :
            n \notin DOMAIN TheDeps =>
                ent[<<LibDir(TheManifest, opts), n>>].kind = "absent"

\* C2 (amended): update prunes nothing. Without --force no step of an update
\* deletes an entry, whether its name is a manifest key or not; an entry is
\* deleted only by --force, which deletes the whole lib directory.
C2_NoPruning ==
    [][(cmd' = "update" /\ ~force') =>
          \A at \in Dsts : ent[at].kind # "absent" => ent'[at].kind # "absent"]_vars

\* C2 witness: an update without --force has succeeded, and the orphan is
\* still there beside the checkout of a.
C2_OrphanKept ==
    /\ pc = "shell" /\ InUpdate /\ ~force /\ exitCode = 0
    /\ OrphanName \notin DOMAIN TheDeps
    /\ ent[<<DefaultLibDir, OrphanName>>].kind = "dir"
    /\ ent[<<DefaultLibDir, "a">>].kind = "repo"

\* the url the claim C3 derives where the server has a user or no scheme
C3_Plain(server, repo) ==
    IF Contains(server, At) THEN server \o Colon \o repo
    ELSE GitAt \o server \o Colon \o repo

\* C3 (as claimed): for a remote dependency with a shorthand, no url and a git
\* server, url derivation succeeds (no error, no panic) and the clone is
\* handed "{server}:{repo}", "{protocol}://git@{host}:{repo}" or
\* "git@{server}:{repo}".
C3_ShorthandUrl ==
    \A k \in Keys :
        (/\ Attempted(k) /\ IsRemote(TheDeps[k])
         /\ IsSome(TheDeps[k].repo) /\ IsNone(TheDeps[k].git)
         /\ IsSome(TheManifest.git_server)) =>
            LET server == Unwrap(TheManifest.git_server)
                repo == Unwrap(TheDeps[k].repo)
                parts == Split(server, SchemeSep)
            IN  /\ ~HasCall(k, "resolve_url")
                /\ \A i \in DOMAIN ops :
                      (ops[i].key = k /\ ops[i].op = "clone") =>
                          IF ~Contains(server, At) /\ Len(parts) = 2
                          THEN ops[i].arg = parts[1] \o SchemeSep \o GitAt
                                            \o parts[2] \o Colon \o repo
                          ELSE Len(parts) = 1 => ops[i].arg = C3_Plain(server, repo)

\* C4 (as claimed): a remote dependency that sets `git` has that url handed to
\* the clone whatever `repo` and the git server are, and url resolution fails
\* only where there is neither a url nor a server with a shorthand.
C4_ExplicitUrlVerbatim ==
    \A k \in Keys :
        (Attempted(k) /\ IsRemote(TheDeps[k])) =>
            /\ IsSome(TheDeps[k].git) =>
                  /\ ~HasCall(k, "resolve_url")
                  /\ \A i \in DOMAIN ops :
                        (ops[i].key = k /\ ops[i].op = "clone") =>
                            ops[i].arg = Unwrap(TheDeps[k].git)
            /\ (\E i \in DOMAIN ops : /\ ops[i].key = k /\ ops[i].op = "resolve_url"
                                      /\ ops[i].res = "err") =>
                  /\ IsNone(TheDeps[k].git)
                  /\ ~(IsSome(TheManifest.git_server) /\ IsSome(TheDeps[k].repo))

\* the absolute, cleaned forms of the local paths of the model
C5_Cleaned(path) == IF path = PathRel THEN <<"cwd", "p">> ELSE <<"q", "r">>

\* C5 (as claimed): in an update without --force and without faults, a local
\* dependency whose destination was missing when the process started gets a
\* link to the absolute, cleaned path; one whose destination was there (a
\* dangling link too) gets no link call, no error and no change; and no backend
\* call is made for it.
C5_LocalLink ==
    \A k \in Keys :
        (/\ Attempted(k) /\ pc # "shell" /\ ~force /\ ~Faulted
         /\ IsSome(TheDeps[k].path)) =>
            LET was == prev.ent[DstOf(k)]
            IN  /\ was.kind = "absent" =>
                      ent[DstOf(k)] = Link(C5_Cleaned(Unwrap(TheDeps[k].path)))
                /\ was.kind # "absent" =>
                      /\ ~HasCall(k, "make_symlink")
                      /\ ent[DstOf(k)] = was
                      /\ Processed(k)
                /\ \A i \in DOMAIN ops :
                      ops[i].key = k =>
                          ops[i].op \in {"create_lib_dir", "exists", "make_symlink"}

\* what dst.exists() answered for dependency k
Answered(k, a) ==
    \E i \in DOMAIN ops : ops[i].key = k /\ ops[i].op = "exists" /\ ops[i].arg = <<a>>
OnlyBranch(d) == IsSome(d.branch) /\ IsNone(d.tag) /\ IsNone(d.rev)
OnlyTag(d) == IsNone(d.branch) /\ IsSome(d.tag) /\ IsNone(d.rev)
OnlyRev(d) == IsNone(d.branch) /\ IsNone(d.tag) /\ IsSome(d.rev)
NoSelector(d) == IsNone(d.branch) /\ IsNone(d.tag) /\ IsNone(d.rev)

\* C6: a remote dependency with only `branch` set is cloned with that branch
\* where its destination is missing and gets a fetch of refs/heads/{branch}
\* where it is there, and never a tag or revision lookup; one with no selector
\* and a missing destination is cloned with no branch and nothing else is
\* applied to it.
C6_RefSelection ==
    \A k \in Keys :
        (Attempted(k) /\ IsRemote(TheDeps[k])) =>
            LET d == TheDeps[k]
                mine == {i \in DOMAIN ops : ops[i].key = k}
            IN  /\ OnlyBranch(d) =>
                      /\ \A i \in mine :
                            /\ ops[i].op \notin {"peel_to_tag", "find_commit",
                                                 "set_head_detached"}
                            /\ ops[i].op = "clone" =>
                                  ops[i].opt = d.branch /\ Answered(k, "no")
                            /\ ops[i].op = "fetch" =>
                                  /\ ops[i].arg = HeadsRef(Unwrap(d.branch))
                                  /\ Answered(k, "yes")
                            /\ ops[i].op = "set_head" =>
                                  ops[i].arg = HeadsRef(Unwrap(d.branch))
                      /\ (Processed(k) /\ Answered(k, "no")) =>
                            HasCall(k, "clone") /\ ~HasCall(k, "fetch")
                      /\ (Processed(k) /\ Answered(k, "yes")) =>
                            HasCall(k, "fetch") /\ ~HasCall(k, "clone")
                /\ (NoSelector(d) /\ Answered(k, "no")) =>
                      /\ \A i \in mine :
                            /\ ops[i].op \in {"create_lib_dir", "exists",
                                              "create_dst", "clone"}
                            /\ ops[i].op = "clone" => ops[i].opt = None
                      /\ Processed(k) =>
                            /\ HasCall(k, "clone")
                            /\ pc # "shell" =>
                                  ent[DstOf(k)].head = HeadsRef(DefaultBranch)

\* C6 witness: an update has found the checkouts of a (no selector) and b
\* (branch only) in place, after the update that cloned them, and has
\* converged b with a fetch.
C6_BranchFetched ==
    /\ Processed("a") /\ Processed("b") /\ prev.cmd = "update" /\ prev.exit = 0
    /\ IsRemote(TheDeps["a"]) /\ NoSelector(TheDeps["a"]) /\ Answered("a", "yes")
    /\ OnlyBranch(TheDeps["b"]) /\ HasCall("b", "fetch")
    /\ ent[DstOf("a")].head = HeadsRef(DefaultBranch)

\* C7: a failed step ends the process. Once a call has failed (or url
\* resolution has) no further call is made: the failed one is the last, none
\* is repeated, nothing is done for a later dependency; and the process exits
\* with a nonzero status leaving the file system as the failure found it.
C7_Failed == pc \in {"error", "panic"}
C7_ErrorsFatal ==
    /\ [](C7_Failed =>
            /\ ops # <<>>
            /\ ops[Len(ops)].res # "ok"
            /\ \A i \in 1..(Len(ops) - 1) : ops[i].res = "ok"
            /\ \A i \in DOMAIN ops :
                  ops[i].key \in {""} \cup {TheKeys[j] : j \in 1..idx})
    /\ [][C7_Failed =>
            /\ pc' = "shell" /\ exitCode' > 0
            /\ UNCHANGED <<manifest, dirs, ent, ops>>]_vars

\* C7 witness: the clone of the first of two dependencies has failed, and the
\* directory created for it is there.
C7_PartialLeft ==
    /\ pc = "error" /\ InUpdate /\ idx = 1 /\ Len(TheKeys) = 2
    /\ ent[DstOf(TheKeys[1])].kind = "dir"
    /\ ops[Len(ops)].op = "clone"

\* C8: init with ./deps.toml present exits with status 1 and leaves the file
\* as it is; update with no ./deps.toml fails on opening it, makes no other
\* call, creates no directory and exits with a nonzero status.
C8_ManifestGates ==
    [][/\ (pc = "shell" /\ cmd' = "init" /\ runs' = runs + 1 /\ IsSome(manifest)) =>
              (pc' = "shell" /\ exitCode' = 1 /\ manifest' = manifest)
       /\ (pc = "shell" /\ cmd' = "update" /\ runs' = runs + 1 /\ IsNone(manifest)) =>
              /\ pc' = "error" /\ dirs' = dirs /\ ent' = ent
              /\ \A i \in DOMAIN ops' : ops'[i].op = "open_manifest"
       /\ (pc = "error" /\ cmd = "update" /\ IsNone(manifest)) =>
              (pc' = "shell" /\ exitCode' > 0 /\ dirs' = dirs /\ ent' = ent)]_vars

\* C8 witness: init has been run on a manifest with dependencies and refused.
C8_InitRefused ==
    /\ pc = "shell" /\ cmd = "init" /\ exitCode = 1
    /\ IsSome(manifest) /\ DOMAIN TheDeps # {}

\* C9 (as claimed): an update prompts at most once, before any dependency is
\* taken up, only if the key is protected and some dependency is synchronized
\* as a remote source; and every credentials callback after the prompt
\* supplies the passphrase read.
C9_PromptDiscipline ==
    LET asked == {i \in DOMAIN ops : ops[i].op = "read_password"}
    IN  (cmd = "update" /\ IsSome(manifest)) =>
            /\ Cardinality(asked) <= 1
            /\ \A i \in asked :
                  /\ \A j \in DOMAIN ops : ops[j].key # "" => i < j
                  /\ IsSome(opts.ssh) /\ Unwrap(opts.ssh).protected
                  /\ \E k \in DOMAIN TheDeps : IsRemote(TheDeps[k])
                  /\ ops[i].res = "ok" =>
                        \A j \in DOMAIN ops :
                            ops[j].op \in NetworkOps => ops[j].cred = Some(Some("pw"))

\* the target object and the head reference of a dependency with one selector
C10_Target(d) ==
    CASE OnlyBranch(d) -> BranchTip(Unwrap(d.branch))
      [] OnlyTag(d) -> TagTarget(Unwrap(d.tag))
      [] OnlyRev(d) -> Unwrap(d.rev)
C10_Head(d) ==
    CASE OnlyBranch(d) -> HeadsRef(Unwrap(d.branch))
      [] OnlyTag(d) -> TagsRef(Unwrap(d.tag))
      [] OnlyRev(d) -> Detached(Unwrap(d.rev))
\* dependency k, remote with one selector, was opened as an existing checkout
\* by an update that has run to its end
C10_Converged(k) ==
    /\ UpdateOk /\ pc # "shell" /\ k \in DOMAIN TheDeps
    /\ IsRemote(TheDeps[k]) /\ HasCall(k, "open")
    /\ OnlyBranch(TheDeps[k]) \/ OnlyTag(TheDeps[k]) \/ OnlyRev(TheDeps[k])

C11_LeftByFailedClone(k) ==
    /\ Attempted(k) /\ pc # "shell" /\ ~force
    /\ IsRemote(TheDeps[k])
    /\ prev.ent[DstOf(k)].kind = "dir"
C11_CallsFor(k) == SelectSeq(ops, LAMBDA o : o.key = k)

\* C11 (as claimed): a remote dependency whose destination directory was
\* created but whose clone did not complete is, in every later update without
\* --force, taken as present, not cloned, raises no error, and the run goes on
\* to the dependencies after it.
C11_SilentlySkipped ==
    \A k \in Keys :
        C11_LeftByFailedClone(k) =>
            /\ Answered(k, "yes")
            /\ ~HasCall(k, "clone")
            /\ \A i \in DOMAIN ops : ops[i].key = k => ops[i].res = "ok"
            /\ pc \notin {"error", "panic"}

\* C11 (amended): such a dependency is taken as present and not cloned, but it
\* is not skipped: the one backend call made for it opens the destination as a
\* repository, which fails, whatever its selector; that failure ends the run,
\* no later dependency is taken up, and the directory stays as it was.
C11_OpenFails ==
    \A k \in Keys :
        C11_LeftByFailedClone(k) =>
            LET mine == C11_CallsFor(k)
            IN  /\ Answered(k, "yes")
                /\ ~HasCall(k, "clone") /\ ~HasCall(k, "create_dst")
                /\ Len(mine) = 2
                /\ mine[2].op = "open" /\ mine[2].res = "refused"
                /\ ops[Len(ops)] = mine[2]
                /\ pc = "error" /\ ~Processed(k)
                /\ ent[DstOf(k)] = prev.ent[DstOf(k)]

\* C11 witness: the clone of a failed in the last update; this update found
\* the directory, failed to open it, and b after it has not been taken up.
C11_StuckOnOpen ==
    /\ C11_LeftByFailedClone("a") /\ prev.cmd = "update" /\ prev.exit = 1
    /\ TheKeys = <<"a", "b">> /\ idx = 1 /\ pc = "error"
    /\ ops[Len(ops)].op = "open" /\ ~HasCall("b", "exists")
    /\ ent[DstOf("a")].kind = "dir" /\ ent[DstOf("b")].kind = "absent"

\* more than one of branch / tag / rev is set
C12_Ambiguous(d) ==
    \/ IsSome(d.branch) /\ IsSome(d.tag)
    \/ IsSome(d.branch) /\ IsSome(d.rev)
    \/ IsSome(d.tag) /\ IsSome(d.rev)
\* a call that targets a branch, a tag or a revision of dependency d
C12_Targets(o, d) ==
    \/ o.op = "clone" /\ IsSome(o.opt) /\ o.opt = d.branch
    \/ o.op \in {"fetch", "find_branch"} /\ IsSome(d.branch)
    \/ o.op = "peel_to_tag" /\ IsSome(d.tag) /\ o.arg = TagsRef(Unwrap(d.tag))
    \/ o.op = "find_commit" /\ IsSome(d.rev) /\ o.arg = <<Unwrap(d.rev)>>
C12_Unpinned(o) ==
    \/ o.op = "clone" /\ o.opt = None
    \/ o.op = "download" /\ o.arg = <<>>
    \/ o.op = "checkout_head"

\* C12 (as claimed): a remote dependency with two or more of branch, tag and
\* rev set is not rejected, and the backend gets an operation that targets one
\* of the values set, never an unpinned clone or refresh.
C12_Precedence ==
    \A k \in Keys :
        (Attempted(k) /\ IsRemote(TheDeps[k]) /\ C12_Ambiguous(TheDeps[k])) =>
            /\ ~HasCall(k, "resolve_url")
            /\ \A i \in DOMAIN ops : ops[i].key = k => ~C12_Unpinned(ops[i])
            /\ Processed(k) =>
                  \E i \in DOMAIN ops :
                      ops[i].key = k /\ C12_Targets(ops[i], TheDeps[k])

\* C12 (amended): such a dependency is not rejected, and none of its selectors
\* is applied: it is handled as one with no selector. A missing destination is
\* cloned with no branch and left on the remote's default branch; one that is
\* there is opened, downloaded with no refspec and has its head checked out,
\* head and tree staying where they were; no call targets a branch, a tag or
\* a revision.
C12_SelectorsIgnored ==
    \A k \in Keys :
        (Attempted(k) /\ IsRemote(TheDeps[k]) /\ C12_Ambiguous(TheDeps[k])) =>
            LET d == TheDeps[k]
                mine == {i \in DOMAIN ops : ops[i].key = k}
            IN  /\ ~HasCall(k, "resolve_url")
                /\ \A i \in mine :
                      /\ ~C12_Targets(ops[i], d)
                      /\ ops[i].op \in {"create_lib_dir", "exists", "create_dst",
                                        "clone", "open", "find_remote",
                                        "download", "checkout_head"}
                      /\ ops[i].op = "clone" => ops[i].opt = None
                      /\ ops[i].op = "download" => ops[i].arg = <<>>
                /\ (Processed(k) /\ Answered(k, "no")) =>
                      /\ HasCall(k, "clone")
                      /\ pc # "shell" =>
                            /\ ent[DstOf(k)].head = HeadsRef(DefaultBranch)
                            /\ ent[DstOf(k)].tree = BranchTip(DefaultBranch)
                /\ (Processed(k) /\ Answered(k, "yes")) =>
                      /\ HasCall(k, "download") /\ HasCall(k, "checkout_head")
                      /\ pc # "shell" =>
                            /\ ent[DstOf(k)].head = prev.ent[DstOf(k)].head
                            /\ ent[DstOf(k)].tree = prev.ent[DstOf(k)].tree

\* C12 witness: a, with a branch and a tag set, was cloned by the last update
\* and has now been refreshed; it is on the default branch, not on the branch
\* and not at the tag.
C12_BranchAndTagOnDefault ==
    /\ Processed("a") /\ IsRemote(TheDeps["a"]) /\ pc # "shell"
    /\ IsSome(TheDeps["a"].branch) /\ IsSome(TheDeps["a"].tag)
    /\ prev.cmd = "update" /\ prev.exit = 0
    /\ Answered("a", "yes") /\ HasCall("a", "checkout_head")
    /\ ent[DstOf("a")].head = HeadsRef(DefaultBranch)
    /\ ent[DstOf("a")].tree = BranchTip(DefaultBranch)

====
